---- MODULE Spec2Model ----
(***************************************************************************)
(* Model of the two registry generators of delve-plugins:                  *)
(*   .github/scripts/generate-registry.py          (variant "full")        *)
(*   .github/scripts/simple-registry-generator.py  (variant "simple")      *)
(* A run scans the plugin directories of the working directory, builds the *)
(* in-memory plugins map and then writes registry.yml, api/plugins.json    *)
(* and one detail file api/plugins/<key> per entry of the map.             *)
(*                                                                         *)
(* Names of files and directories are strings; the names of the version    *)
(* directories are sequences of character codes, because the generators    *)
(* order them with Python's string comparison.  File contents are byte     *)
(* tokens (strings); "" is the zero-byte file.                             *)
(***************************************************************************)
EXTENDS Integers, Sequences, FiniteSets, TLC

VARIABLES
    variant,    \* which script runs: "full" or "simple"
    tree,       \* the input tree: root entry name -> entry
    pc,         \* position of main(): "idle", a stage of Stages, "aborted"
    runs,       \* number of runs started so far
    todo,       \* root entries the scan loop has not visited yet
    scanned,    \* directories whose plugin.json the scan loop has opened
    plugins,    \* the in-memory plugins map, in insertion order
    next_detail,\* index in plugins of the next detail file to write
    registry,   \* registry.yml
    api_list,   \* api/plugins.json
    details,    \* api/plugins/: file name -> plugin record
    wlog,       \* names of the files written by the current run, in order
    before      \* the three outputs as they were when the current run started

vars == <<variant, tree, pc, runs, todo, scanned, plugins, next_detail,
          registry, api_list, details, wlog, before>>

----------------------------------------------------------------------------
(* Bounds of the model *)

\* runs of the generator in one behaviour
MaxRuns == 2
\* version directories under one releases directory
MaxVersionDirs == 3

Variants == {"full", "simple"}

----------------------------------------------------------------------------
(* Strings that are compared character by character *)

\* Python's str(n) for a natural number, as character codes ('0' is 48)
RECURSIVE Dec(_)
Dec(n) == IF n < 10 THEN <<48 + n>> ELSE Dec(n \div 10) \o <<48 + (n % 10)>>

\* the directory name "major.minor.patch" ('.' is 46)
VersionName(t) == Dec(t[1]) \o <<46>> \o Dec(t[2]) \o <<46>> \o Dec(t[3])

\* Python's s < t on strings: lexicographic by code point, a proper prefix is less
RECURSIVE StrLess(_, _)
StrLess(s, t) ==
    IF t = <<>> THEN FALSE
    ELSE IF s = <<>> THEN TRUE
    ELSE IF Head(s) # Head(t) THEN Head(s) < Head(t)
    ELSE StrLess(Tail(s), Tail(t))

----------------------------------------------------------------------------
(* The input tree *)

Fields == {"id", "name", "description", "author", "license",
           "compatibility", "build"}

NoManifest ==
    [exists |-> FALSE, valid |-> FALSE, bytes |-> "", fields |-> {},
     id |-> "", name |-> "", platforms |-> <<>>, entry |-> ""]

\* a root entry that does not exist
NoEntry ==
    [kind |-> "none", manifest |-> NoManifest, has_releases |-> FALSE,
     releases |-> <<>>]

IsDir(d) == tree[d].kind = "dir"

\* os.listdir('.') / Path(".").iterdir(): the names of the existing root entries
Listing(t) == {d \in DOMAIN t : t[d].kind # "none"}

\* the version directories of <d>/releases (entries that are directories)
VersionDirs(d) ==
    IF tree[d].has_releases
    THEN {v \in DOMAIN tree[d].releases : tree[d].releases[v].isdir}
    ELSE {}

\* the files of <d>/releases/<v>: file name -> bytes
FilesOf(d, v) == tree[d].releases[v].files

\* item.startswith('.'), over the names the model uses
NameTails == {"a", "b", "c", "git", "github", "hidden", "README.md"}
StartsWithDot(name) == \E s \in NameTails : name = "." \o s

----------------------------------------------------------------------------
(* calculate_checksum and the values built from it *)

\* hashlib.sha256(bytes).hexdigest(): an injective image of the bytes
calculate_checksum(bytes) == "h(" \o bytes \o ")"

\* f"sha256:{x}"
Tagged(x) == "sha256:" \o x

\* binary_path.stat().st_size
FileSize(bytes) == Len(bytes)

\* Path('.') / plugin_id / 'plugin.json' can be opened
ManifestReadable(id) == id \in DOMAIN tree /\ IsDir(id) /\ tree[id].manifest.exists

NoFrontend == [block |-> FALSE, entry |-> "", checksum |-> ""]

NoVersion ==
    [version |-> <<>>, assets |-> <<>>, frontend |-> NoFrontend,
     plugin_metadata |-> [url |-> <<>>, checksum |-> ""]]

\* the "plugin_metadata" block of a version record
PluginMetadata(id) ==
    [url |-> <<id, "plugin.json">>,
     checksum |-> Tagged(calculate_checksum(tree[id].manifest.bytes))]

----------------------------------------------------------------------------
(* generate-registry.py: process_release *)

\* binary_pattern.format(plugin_name=..., os=..., arch=...) for the
\* conventional pattern "{plugin_name}-{os}-{arch}", plus ".exe" on windows
FullBinaryName(id, p) ==
    LET base == id \o "-" \o p[1] \o "-" \o p[2]
    IN  IF p[1] = "windows" THEN base \o ".exe" ELSE base

\* f"{os_name}-{arch}"
FullPlatformKey(p) == p[1] \o "-" \o p[2]

FullAssets(d, v) ==
    LET m == tree[d].manifest
        present == {i \in 1..Len(m.platforms) :
                      FullBinaryName(m.id, m.platforms[i]) \in DOMAIN FilesOf(d, v)}
        keys == {FullPlatformKey(m.platforms[i]) : i \in present}
        nameOf(k) == FullBinaryName(m.id,
                       m.platforms[CHOOSE i \in present :
                                     FullPlatformKey(m.platforms[i]) = k])
    IN  [k \in keys |->
           [url |-> <<m.id, "releases", v, nameOf(k)>>,
            checksum |-> Tagged(calculate_checksum(FilesOf(d, v)[nameOf(k)])),
            size |-> FileSize(FilesOf(d, v)[nameOf(k)])]]

FullFrontend(d, v) ==
    LET m == tree[d].manifest
    IN  IF m.entry = "" THEN NoFrontend
        ELSE [block |-> TRUE, entry |-> m.entry,
              checksum |-> IF m.entry \in DOMAIN FilesOf(d, v)
                           THEN Tagged(calculate_checksum(FilesOf(d, v)[m.entry]))
                           ELSE Tagged("missing")]

\* a release is kept whatever its assets
DropsRelease_Never(assets) == FALSE

\* "if not assets: return None": a release without assets is dropped
DropsRelease(assets) == DOMAIN assets = {}

\* result of process_release(version_dir, plugin_data):
\*   status "error" (an exception), "none" (returns None) or "ok" (a record)
process_release(d, v) ==
    LET m == tree[d].manifest
        assets == FullAssets(d, v)
    IN  IF "build" \notin m.fields THEN [status |-> "error", rec |-> NoVersion]
        ELSE IF m.platforms # <<>> /\ "id" \notin m.fields
             THEN [status |-> "error", rec |-> NoVersion]
        ELSE IF DropsRelease(assets) THEN [status |-> "none", rec |-> NoVersion]
        ELSE IF "compatibility" \notin m.fields \/ ~ManifestReadable(m.id)
             THEN [status |-> "error", rec |-> NoVersion]
        ELSE [status |-> "ok",
              rec |-> [version |-> v, assets |-> assets,
                       frontend |-> FullFrontend(d, v),
                       plugin_metadata |-> PluginMetadata(m.id)]]

----------------------------------------------------------------------------
(* simple-registry-generator.py: process_version *)

SimplePlatforms ==
    <<"darwin-amd64", "darwin-arm64", "linux-amd64", "linux-arm64", "windows-amd64">>

SimpleBinaryName(id, platform) ==
    LET base == id \o "-" \o platform
    IN  IF platform = "windows-amd64" THEN base \o ".exe" ELSE base

SimpleAssets(d, v) ==
    LET m == tree[d].manifest
        keys == {SimplePlatforms[i] : i \in
                   {j \in 1..Len(SimplePlatforms) :
                      SimpleBinaryName(m.id, SimplePlatforms[j]) \in DOMAIN FilesOf(d, v)}}
    IN  [k \in keys |->
           [url |-> <<m.id, "releases", v, SimpleBinaryName(m.id, k)>>,
            checksum |-> Tagged(calculate_checksum(FilesOf(d, v)[SimpleBinaryName(m.id, k)])),
            size |-> FileSize(FilesOf(d, v)[SimpleBinaryName(m.id, k)])]]

SimpleFrontend(d, v) ==
    IF "component.js" \in DOMAIN FilesOf(d, v)
    THEN [block |-> TRUE, entry |-> "component.js",
          checksum |-> Tagged(calculate_checksum(FilesOf(d, v)["component.js"]))]
    ELSE NoFrontend

process_version(d, v) ==
    LET m == tree[d].manifest
        assets == SimpleAssets(d, v)
    IN  IF "id" \notin m.fields THEN [status |-> "error", rec |-> NoVersion]
        ELSE IF DropsRelease(assets) THEN [status |-> "none", rec |-> NoVersion]
        ELSE IF ~ManifestReadable(m.id) THEN [status |-> "error", rec |-> NoVersion]
        ELSE [status |-> "ok",
              rec |-> [version |-> v, assets |-> assets,
                       frontend |-> SimpleFrontend(d, v),
                       plugin_metadata |-> PluginMetadata(m.id)]]

----------------------------------------------------------------------------
(* Plugin records *)

NoPlugin == [name |-> "", versions |-> <<>>]

\* releases.sort(key=lambda x: x["version"], reverse=True): the records in
\* descending order of the version string (names in one directory are distinct)
RECURSIVE SortByVersionDesc(_)
SortByVersionDesc(S) ==
    IF S = {} THEN <<>>
    ELSE LET top == CHOOSE r \in S :
                      \A q \in S \ {r} : StrLess(q.version, r.version)
         IN  <<top>> \o SortByVersionDesc(S \ {top})

InfoFields == {"name", "description", "author", "license"}

\* generate-registry.py, process_plugin(plugin_dir, plugin_data)
process_plugin(d) ==
    LET m == tree[d].manifest
        res == [v \in VersionDirs(d) |-> process_release(d, v)]
        ok == {res[v].rec : v \in {w \in VersionDirs(d) : res[w].status = "ok"}}
    IN  IF \E v \in VersionDirs(d) : res[v].status = "error"
        THEN [status |-> "error", rec |-> NoPlugin]
        ELSE IF ~((InfoFields \cup {"compatibility"}) \subseteq m.fields)
        THEN [status |-> "error", rec |-> NoPlugin]
        ELSE [status |-> "ok",
              rec |-> [name |-> m.name, versions |-> SortByVersionDesc(ok)]]

\* simple-registry-generator.py, the body of the loop of scan_plugins after
\* json.load: status "none" when the plugin is left out of the map
simple_plugin(d) ==
    LET m == tree[d].manifest
        res == [v \in VersionDirs(d) |-> process_version(d, v)]
        ok == {res[v].rec : v \in {w \in VersionDirs(d) : res[w].status = "ok"}}
    IN  IF \E v \in VersionDirs(d) : res[v].status = "error"
        THEN [status |-> "error", rec |-> NoPlugin]
        ELSE IF ok = {} THEN [status |-> "none", rec |-> NoPlugin]
        ELSE IF ~(InfoFields \subseteq m.fields)
        THEN [status |-> "error", rec |-> NoPlugin]
        ELSE [status |-> "ok",
              rec |-> [name |-> m.name, versions |-> SortByVersionDesc(ok)]]

\* the scan loop's test of a root entry, up to plugin_json.exists()
Accepts(d) ==
    /\ IsDir(d)
    /\ IF variant = "full" THEN d # ".github" ELSE ~StartsWithDot(d)
    /\ tree[d].manifest.exists

\* one iteration of the scan loop on an accepted entry, json.load included
ScanEntry(d) ==
    IF ~tree[d].manifest.valid THEN [status |-> "error", rec |-> NoPlugin]
    ELSE IF variant = "full" THEN process_plugin(d)
    ELSE simple_plugin(d)

Keys(p) == {p[i].key : i \in 1..Len(p)}

----------------------------------------------------------------------------
(* The outputs *)

RECURSIVE TotalVersions(_)
TotalVersions(p) ==
    IF p = <<>> THEN 0 ELSE Len(Head(p).rec.versions) + TotalVersions(Tail(p))

\* generate_registry(plugins): the parts of the document that depend on the scan
generate_registry(p) ==
    [plugins |-> p,
     total_plugins |-> Len(p),
     total_versions |-> TotalVersions(p),
     most_popular |-> [i \in 1..Len(p) |-> p[i].key]]

\* generate_api_files: the plugin_list of api/plugins.json
PluginList(p) ==
    [i \in 1..Len(p) |->
       [id |-> p[i].key,
        name |-> p[i].rec.name,
        latest_version |-> IF p[i].rec.versions # <<>>
                           THEN p[i].rec.versions[1].version ELSE <<>>]]

NoRegistry == [exists |-> FALSE, doc |-> generate_registry(<<>>)]
NoApiList == [exists |-> FALSE, plugins |-> <<>>, total |-> 0]

Outputs == [registry |-> registry, api_list |-> api_list, details |-> details]

\* registry.yml is written before the scan
Stages_RegistryFirst == <<"registry", "scan", "api_list", "details", "done">>

\* the statements of main(), in order
Stages == <<"scan", "registry", "api_list", "details", "done">>

NextStage(s) == Stages[(CHOOSE i \in 1..Len(Stages) : Stages[i] = s) + 1]

Resting == {"idle", "done", "aborted"}

----------------------------------------------------------------------------
(* Input trees the behaviours start from *)

RootNames == {"a", "b", ".git", ".github", "README.md"}

VersionNames == {VersionName(<<1, 2, 0>>), VersionName(<<1, 9, 0>>),
                 VersionName(<<1, 10, 0>>), VersionName(<<2, 0, 0>>)}

DefaultPlatforms == << <<"linux", "amd64">>, <<"windows", "amd64">> >>

Manifest(id, missing, platforms, entry, bytes) ==
    [exists |-> TRUE, valid |-> TRUE, bytes |-> bytes, fields |-> Fields \ missing,
     id |-> id, name |-> "Plugin " \o bytes, platforms |-> platforms, entry |-> entry]

GoodManifest(id, bytes) == Manifest(id, {}, DefaultPlatforms, "", bytes)

BrokenManifest(bytes) == [NoManifest EXCEPT !.exists = TRUE, !.bytes = bytes]

PluginDir(m, rels) ==
    [kind |-> "dir", manifest |-> m, has_releases |-> TRUE, releases |-> rels]

BareDir(m) ==
    [kind |-> "dir", manifest |-> m, has_releases |-> FALSE, releases |-> <<>>]

PlainFile == [NoEntry EXCEPT !.kind = "file"]

Release(files) == [isdir |-> TRUE, files |-> files]
StrayFile == [isdir |-> FALSE, files |-> <<>>]

V120 == VersionName(<<1, 2, 0>>)

\* a tree with the given entries and nothing else
TreeOf(entries) ==
    [d \in RootNames |-> IF d \in DOMAIN entries THEN entries[d] ELSE NoEntry]

\* one plugin "a" with up to MaxVersionDirs release directories
ReleaseChoices ==
    { Release(<<>>),
      Release("a-linux-amd64" :> ""),
      Release(("a-linux-amd64" :> "x") @@ ("a-windows-amd64.exe" :> "y")),
      Release("a-windows-amd64" :> "x") }

VersionTrees ==
    UNION { { TreeOf("a" :> PluginDir(GoodManifest("a", "A"), rels)) :
                rels \in [S -> ReleaseChoices] } :
            S \in {T \in SUBSET VersionNames : Cardinality(T) <= MaxVersionDirs} }

\* one plugin "a" whose manifest is malformed or lacks a field
FieldTrees ==
    { TreeOf("a" :> dir) :
        dir \in
          UNION { { BareDir(m),
                    PluginDir(m, <<>>),
                    PluginDir(m, V120 :> Release(<<>>)),
                    PluginDir(m, V120 :> Release("a-linux-amd64" :> "x")),
                    PluginDir(m, V120 :> StrayFile) } :
                  m \in { Manifest("a", missing, platforms, "", "A") :
                            missing \in {{}} \cup {{f} : f \in Fields},
                            platforms \in {<<>>, DefaultPlatforms} }
                        \cup {BrokenManifest("A")} } }

\* plugin directories "a" and "b"; the manifest of "b" names the id "a", "b" or "c"
IdTrees ==
    { TreeOf(("a" :> da) @@ ("b" :> db)) :
        da \in { NoEntry,
                 BareDir(GoodManifest("a", "A")),
                 PluginDir(GoodManifest("a", "A"),
                           V120 :> Release("a-linux-amd64" :> "x")) },
        db \in UNION { { BareDir(GoodManifest(id, "B")),
                         PluginDir(GoodManifest(id, "B"),
                                   V120 :> Release((id \o "-linux-amd64") :> "x")) } :
                       id \in {"a", "b", "c"} } }

\* one plugin "a" with or without a declared frontend entry
FrontendTrees ==
    { TreeOf("a" :> PluginDir(Manifest("a", {}, DefaultPlatforms, entry, "A"),
                              V120 :> Release(files))) :
        entry \in {"", "component.js", "ui.js"},
        files \in { "a-linux-amd64" :> "x",
                    ("a-linux-amd64" :> "x") @@ ("component.js" :> "js"),
                    ("a-linux-amd64" :> "x") @@ ("ui.js" :> "js"),
                    "component.js" :> "js" } }

\* hidden directories next to a plugin, with or without a manifest
EntryChoices(d) ==
    { NoEntry,
      BareDir(NoManifest),
      PluginDir(GoodManifest(d, d),
                V120 :> Release((d \o "-linux-amd64") :> "x")) }

HiddenTrees ==
    { TreeOf(("a" :> da) @@ (".git" :> dg) @@ (".github" :> dh) @@ ("README.md" :> f)) :
        da \in EntryChoices("a"), dg \in EntryChoices(".git"),
        dh \in EntryChoices(".github"), f \in {NoEntry, PlainFile} }

InitialTrees == VersionTrees \cup FieldTrees \cup IdTrees \cup FrontendTrees \cup HiddenTrees

----------------------------------------------------------------------------
(* The state machine *)

Init ==
    /\ variant \in Variants
    /\ tree \in InitialTrees
    /\ pc = "idle"
    /\ runs = 0
    /\ todo = {}
    /\ scanned = {}
    /\ plugins = <<>>
    /\ next_detail = 1
    /\ registry = NoRegistry
    /\ api_list = NoApiList
    /\ details = <<>>
    /\ wlog = <<>>
    /\ before = [registry |-> NoRegistry, api_list |-> NoApiList, details |-> <<>>]

\* main() is started: scan_plugins() lists the working directory
StartRun ==
    /\ pc \in Resting
    /\ runs < MaxRuns
    /\ runs' = runs + 1
    /\ pc' = Stages[1]
    /\ todo' = Listing(tree)
    /\ scanned' = {}
    /\ plugins' = <<>>
    /\ next_detail' = 1
    /\ wlog' = <<>>
    /\ before' = Outputs
    /\ UNCHANGED <<variant, tree, registry, api_list, details>>

\* the scan loop visits an entry that is no plugin directory
ScanSkip(d) ==
    /\ pc = "scan"
    /\ d \in todo
    /\ ~Accepts(d)
    /\ todo' = todo \ {d}
    /\ UNCHANGED <<variant, tree, pc, runs, scanned, plugins, next_detail,
                   registry, api_list, details, wlog, before>>

\* the scan loop processes a plugin directory
ScanPlugin(d) ==
    /\ pc = "scan"
    /\ d \in todo
    /\ Accepts(d)
    /\ ScanEntry(d).status # "error"
    /\ todo' = todo \ {d}
    /\ scanned' = scanned \cup {d}
    /\ plugins' = IF ScanEntry(d).status = "ok"
                  THEN Append(plugins, [key |-> d, rec |-> ScanEntry(d).rec])
                  ELSE plugins
    /\ UNCHANGED <<variant, tree, pc, runs, next_detail,
                   registry, api_list, details, wlog, before>>

\* json.load, a field lookup or the manifest checksum raises: the run ends
ScanAbort(d) ==
    /\ pc = "scan"
    /\ d \in todo
    /\ Accepts(d)
    /\ ScanEntry(d).status = "error"
    /\ scanned' = scanned \cup {d}
    /\ pc' = "aborted"
    /\ UNCHANGED <<variant, tree, runs, todo, plugins, next_detail,
                   registry, api_list, details, wlog, before>>

\* reading a located file fails (permissions, a vanished file): the run ends
ReadFailure(d) ==
    /\ pc = "scan"
    /\ d \in todo
    /\ Accepts(d)
    /\ scanned' = scanned \cup {d}
    /\ pc' = "aborted"
    /\ UNCHANGED <<variant, tree, runs, todo, plugins, next_detail,
                   registry, api_list, details, wlog, before>>

\* scan_plugins() returns; the simple generator stops when the map is empty
FinishScan ==
    /\ pc = "scan"
    /\ todo = {}
    /\ pc' = IF variant = "simple" /\ plugins = <<>> THEN "done" ELSE NextStage("scan")
    /\ UNCHANGED <<variant, tree, runs, todo, scanned, plugins, next_detail,
                   registry, api_list, details, wlog, before>>

\* yaml.dump(registry) into registry.yml
WriteRegistry ==
    /\ pc = "registry"
    /\ registry' = [exists |-> TRUE, doc |-> generate_registry(plugins)]
    /\ wlog' = Append(wlog, "registry.yml")
    /\ pc' = NextStage("registry")
    /\ UNCHANGED <<variant, tree, runs, todo, scanned, plugins, next_detail,
                   api_list, details, before>>

\* generate_api_files: api/plugins.json
WriteApiList ==
    /\ pc = "api_list"
    /\ api_list' = [exists |-> TRUE, plugins |-> PluginList(plugins),
                    total |-> Len(PluginList(plugins))]
    /\ wlog' = Append(wlog, "api/plugins.json")
    /\ pc' = NextStage("api_list")
    /\ UNCHANGED <<variant, tree, runs, todo, scanned, plugins, next_detail,
                   registry, details, before>>

\* generate_api_files: the next detail file api/plugins/<key>
WriteDetail ==
    /\ pc = "details"
    /\ next_detail <= Len(plugins)
    /\ details' = (plugins[next_detail].key :> plugins[next_detail].rec) @@ details
    /\ wlog' = Append(wlog, "api/plugins/" \o plugins[next_detail].key)
    /\ next_detail' = next_detail + 1
    /\ UNCHANGED <<variant, tree, pc, runs, todo, scanned, plugins,
                   registry, api_list, before>>

\* main() returns
Complete ==
    /\ pc = "details"
    /\ next_detail > Len(plugins)
    /\ pc' = NextStage("details")
    /\ UNCHANGED <<variant, tree, runs, todo, scanned, plugins, next_detail,
                   registry, api_list, details, wlog, before>>

\* outside a run a root entry is removed from the input tree
RemoveEntry(d) ==
    /\ pc \in Resting
    /\ runs < MaxRuns
    /\ tree[d].kind # "none"
    /\ tree' = [tree EXCEPT ![d] = NoEntry]
    /\ pc' = "idle"
    /\ UNCHANGED <<variant, runs, todo, scanned, plugins, next_detail,
                   registry, api_list, details, wlog, before>>

\* outside a run a release directory is removed from the input tree
RemoveRelease(d, v) ==
    /\ pc \in Resting
    /\ runs < MaxRuns
    /\ tree[d].has_releases
    /\ v \in DOMAIN tree[d].releases
    /\ tree' = [tree EXCEPT ![d].releases =
                  [w \in DOMAIN tree[d].releases \ {v} |-> tree[d].releases[w]]]
    /\ pc' = "idle"
    /\ UNCHANGED <<variant, runs, todo, scanned, plugins, next_detail,
                   registry, api_list, details, wlog, before>>

Next ==
    \/ StartRun
    \/ \E d \in RootNames : ScanSkip(d)
    \/ \E d \in RootNames : ScanPlugin(d)
    \/ \E d \in RootNames : ScanAbort(d)
    \/ \E d \in RootNames : ReadFailure(d)
    \/ FinishScan
    \/ WriteRegistry
    \/ WriteApiList
    \/ WriteDetail
    \/ Complete
    \/ \E d \in RootNames : RemoveEntry(d)
    \/ \E d \in RootNames : \E v \in VersionNames : RemoveRelease(d, v)

Spec == Init /\ [][Next]_vars

----------------------------------------------------------------------------
(* Vocabulary of the properties *)

\* the plugin records found in registry.yml and in the detail files
EmittedPlugins ==
    {registry.doc.plugins[i].rec : i \in 1..Len(registry.doc.plugins)}
      \cup {details[k] : k \in DOMAIN details}

\* the latest run has returned after writing its outputs
Fresh == pc = "done" /\ wlog # <<>>

DiscoveryIds == {api_list.plugins[i].id : i \in 1..Len(api_list.plugins)}

\* a directory that holds a plugin: not hidden, with a plugin.json
IsPluginDir(d) == IsDir(d) /\ ~StartsWithDot(d) /\ tree[d].manifest.exists

\* the platform binaries a release is expected to hold: <<platform key, file name>>
ExpectedBinaries(d) ==
    LET id == tree[d].manifest.id
        ps == tree[d].manifest.platforms
        exe(os) == IF os = "windows" THEN ".exe" ELSE ""
    IN  IF variant = "full"
        THEN {<<ps[i][1] \o "-" \o ps[i][2],
                id \o "-" \o ps[i][1] \o "-" \o ps[i][2] \o exe(ps[i][1])>> :
                i \in 1..Len(ps)}
        ELSE {<<os \o "-" \o arch, id \o "-" \o os \o "-" \o arch \o exe(os)>> :
                os \in {"darwin", "linux"}, arch \in {"amd64", "arm64"}}
               \cup {<<"windows-amd64", id \o "-windows-amd64.exe">>}

\* the platforms whose binary exists in <d>/releases/<v>
PresentPlatforms(d, v) ==
    {b[1] : b \in {c \in ExpectedBinaries(d) : c[2] \in DOMAIN FilesOf(d, v)}}

\* the release directories of d that hold at least one expected binary
ValidVersions(d) == {v \in VersionDirs(d) : PresentPlatforms(d, v) # {}}

\* the integer value of a string of decimal digits
RECURSIVE DecValue(_)
DecValue(s) ==
    IF s = <<>> THEN 0 ELSE 10 * DecValue(SubSeq(s, 1, Len(s) - 1)) + (s[Len(s)] - 48)

\* s.split('.')
RECURSIVE SplitDots(_, _)
SplitDots(s, cur) ==
    IF s = <<>> THEN <<cur>>
    ELSE IF Head(s) = 46 THEN <<cur>> \o SplitDots(Tail(s), <<>>)
    ELSE SplitDots(Tail(s), Append(cur, Head(s)))

\* (major, minor, patch) of a version string
Semver(name) == [i \in 1..3 |-> DecValue(SplitDots(name, <<>>)[i])]

SemverGreater(x, y) ==
    \/ x[1] > y[1]
    \/ x[1] = y[1] /\ x[2] > y[2]
    \/ x[1] = y[1] /\ x[2] = y[2] /\ x[3] > y[3]

ByteTokens == {"", "x", "y", "js", "A", "B", "a", "b", ".git", ".github"}

IsRealChecksum(c) == \E b \in ByteTokens : c = Tagged(calculate_checksum(b))

IdentityFields == {"id", "name", "description", "author", "license"}

----------------------------------------------------------------------------
(* Properties *)

\* C1: in every emitted plugin record the versions list is strictly descending
\* by semantic version (major, minor, patch compared as integers).
C1_VersionsSemverDescending ==
    \A rec \in EmittedPlugins :
      \A i, j \in 1..Len(rec.versions) :
        i < j => SemverGreater(Semver(rec.versions[i].version),
                               Semver(rec.versions[j].version))

\* C2: after a run, a plugin directory with zero valid versions is in none of
\* the three outputs, and no emitted plugin record has an empty versions list.
C2_ZeroVersionPluginAbsent ==
    /\ pc = "done" =>
         \A d \in RootNames :
           IsPluginDir(d) /\ ValidVersions(d) = {} =>
             /\ d \notin Keys(registry.doc.plugins)
             /\ d \notin DiscoveryIds
             /\ d \notin DOMAIN details
    /\ \A rec \in EmittedPlugins : rec.versions # <<>>

\* C3: after a run that completes, every plugin directory with at least one
\* valid version appears under its manifest id in registry.yml, exactly once
\* in api/plugins.json and as a detail file.
C3_ValidPluginUnderItsId ==
    pc = "done" =>
      \A d \in RootNames :
        IsPluginDir(d) /\ "id" \in tree[d].manifest.fields /\ ValidVersions(d) # {} =>
          LET id == tree[d].manifest.id
          IN  /\ id \in Keys(registry.doc.plugins)
              /\ Cardinality({i \in 1..Len(api_list.plugins) :
                                api_list.plugins[i].id = id}) = 1
              /\ id \in DOMAIN details

\* C4: every emitted version record has a non-empty assets map; and after a
\* completed run each scanned plugin has exactly one version record per release
\* directory holding an expected binary, none for the other release
\* directories, with exactly the present platforms as asset keys.
C4_AssetsExactlyPresentPlatforms ==
    /\ \A rec \in EmittedPlugins :
         \A i \in 1..Len(rec.versions) : DOMAIN rec.versions[i].assets # {}
    /\ Fresh =>
         /\ \A d \in scanned : ValidVersions(d) # {} => d \in Keys(registry.doc.plugins)
         /\ \A i \in 1..Len(registry.doc.plugins) :
              LET d == registry.doc.plugins[i].key
                  vs == registry.doc.plugins[i].rec.versions
              IN  /\ {vs[j].version : j \in 1..Len(vs)} = ValidVersions(d)
                  /\ Len(vs) = Cardinality(ValidVersions(d))
                  /\ \A j \in 1..Len(vs) :
                       DOMAIN vs[j].assets = PresentPlatforms(d, vs[j].version)
                  /\ d \in DOMAIN details
                  /\ details[d] = registry.doc.plugins[i].rec

\* a completed run kept a release with a zero-byte binary and left out another
C4_Witness ==
    /\ Fresh
    /\ \E i \in 1..Len(registry.doc.plugins) :
         LET d == registry.doc.plugins[i].key
             vs == registry.doc.plugins[i].rec.versions
         IN  /\ VersionDirs(d) \ ValidVersions(d) # {}
             /\ \E j \in 1..Len(vs) :
                  \E k \in DOMAIN vs[j].assets : vs[j].assets[k].size = 0

\* C5: when a frontend is declared (the manifest names frontend.entry; for
\* the generator that only knows the conventional name, it names component.js)
\* and its file is missing from a release that yields a record, the record
\* carries a frontend block that marks the frontend as missing.
C5_MissingFrontendMarked ==
    Fresh =>
      \A i \in 1..Len(registry.doc.plugins) :
        LET d == registry.doc.plugins[i].key
            vs == registry.doc.plugins[i].rec.versions
            entry == tree[d].manifest.entry
            declared == IF variant = "full" THEN entry # "" ELSE entry = "component.js"
        IN  \A j \in 1..Len(vs) :
              declared /\ entry \notin DOMAIN FilesOf(d, vs[j].version) =>
                vs[j].frontend.block /\ ~IsRealChecksum(vs[j].frontend.checksum)

\* C6: a run never completes when the manifest of a plugin directory lacks one
\* of the identity fields id, name, description, author, license.
C6_MissingIdentityFieldAborts ==
    pc = "done" =>
      \A d \in RootNames :
        IsPluginDir(d) /\ tree[d].manifest.valid =>
          IdentityFields \subseteq tree[d].manifest.fields

\* C7: once the latest run has finished, the three outputs are what that run
\* would have left in an empty output directory.
C7_OutputsFromInputAlone ==
    pc = "done" =>
      Outputs =
        IF wlog = <<>>
        THEN [registry |-> NoRegistry, api_list |-> NoApiList, details |-> <<>>]
        ELSE [registry |-> [exists |-> TRUE, doc |-> generate_registry(plugins)],
              api_list |-> [exists |-> TRUE, plugins |-> PluginList(plugins),
                            total |-> Len(plugins)],
              details |-> [k \in Keys(plugins) |->
                             plugins[CHOOSE i \in 1..Len(plugins) :
                                       plugins[i].key = k].rec]]

\* C8: the scanner considers exactly the directories that are not hidden and
\* contain a plugin.json; a hidden directory is never scanned.
C8_ScansExactlyVisiblePluginDirs ==
    /\ \A d \in scanned : ~StartsWithDot(d)
    /\ pc \in {"registry", "api_list", "details", "done"} =>
         scanned = {d \in RootNames : IsPluginDir(d)}

\* C9: every emitted version record carries the checksum and the URL of the
\* plugin.json of the directory it was scanned from.
C9_MetadataOfOwnManifest ==
    Fresh =>
      \A i \in 1..Len(registry.doc.plugins) :
        LET d == registry.doc.plugins[i].key
            vs == registry.doc.plugins[i].rec.versions
        IN  \A j \in 1..Len(vs) :
              /\ vs[j].plugin_metadata.checksum =
                   Tagged(calculate_checksum(tree[d].manifest.bytes))
              /\ vs[j].plugin_metadata.url = <<d, "plugin.json">>

\* C10: nothing is written while the scan runs, so an aborted run leaves the
\* three outputs as they were when it started; and a run writes registry.yml
\* first, api/plugins.json second and the detail files after them.
C10_ScanBeforeWritesInOrder ==
    /\ pc \in {"scan", "aborted"} => wlog = <<>> /\ Outputs = before
    /\ Len(wlog) >= 1 => wlog[1] = "registry.yml"
    /\ Len(wlog) >= 2 => wlog[2] = "api/plugins.json"
    /\ \A i \in 1..Len(wlog) :
         i >= 3 => wlog[i] \notin {"registry.yml", "api/plugins.json"}

\* a run aborts after an earlier run has written all three kinds of output
C10_Witness ==
    /\ pc = "aborted"
    /\ scanned # {}
    /\ before.registry.exists
    /\ before.api_list.exists
    /\ DOMAIN before.details # {}

====
